---- MODULE Spec2Model ----
(***************************************************************************)
(* A model of the two notebook helper scripts:                             *)
(*   src/run_notebook.py  the single-notebook executor                     *)
(*   src/runtest.py       the expectation-checked batch runner             *)
(* Strings are sequences of code points, so that slicing (s[:100]),        *)
(* substring search (e in a), os.path.split and sorted() are computed.     *)
(***************************************************************************)
EXTENDS Integers, Sequences, FiniteSets, TLC

VARIABLES
  \* a direct call of check_errors(file_name, expected, actual)
  ce_file_name, ce_expected, ce_actual, ce_pc, ce_result,
  \* run_notebook.py
  x_argv, x_pc, x_calls, x_exit, x_stdout,
  \* runtest.py, the __main__ block
  argv, pc, notebooks_to_run, idx, expected, stderr, stdout, looked, compared,
  \* runtest.py, _notebook_run and the process/file-system state it acts on
  path, rpc, dirname, notebook_path, original_dir, cwd, temp_path, fd_open,
  exc, errors, files, next_tmp, tmpdir, executed, call_cwd, created, steps,
  calls

ceVars == <<ce_file_name, ce_expected, ce_actual, ce_pc, ce_result>>
xVars == <<x_argv, x_pc, x_calls, x_exit, x_stdout>>
mVars == <<argv, pc, notebooks_to_run, idx, expected, stderr, stdout, looked, compared>>
rVars == <<path, rpc, dirname, notebook_path, original_dir, cwd, temp_path, fd_open, exc, errors, files, next_tmp, tmpdir, executed, call_cwd, created, steps, calls>>
vars == <<ceVars, xVars, mVars, rVars>>

----------------------------------------------------------------------------
(* Bounds of the model *)

\* longest expected / actual list handed to a direct call of check_errors
MaxLen == 2
\* most command-line arguments of a batch run
MaxArgs == 2
\* most command-line arguments of run_notebook.py
MaxExecArgs == 2
\* most successive direct calls of _notebook_run in one process
MaxCalls == 2
\* most temporary files the environment refuses to delete in one process
MaxUnlinkFailures == 1

----------------------------------------------------------------------------
(* String literals of the source, as code points *)

\* "1_intro_to_scala.ipynb"
nb_1_intro_to_scala == <<49,95,105,110,116,114,111,95,116,111,95,115,99,97,108,97,46,105,112,121,110,98>>
\* "2.1_first_module.ipynb"
nb_2_1_first_module == <<50,46,49,95,102,105,114,115,116,95,109,111,100,117,108,101,46,105,112,121,110,98>>
\* "2.2_comb_logic.ipynb"
nb_2_2_comb_logic == <<50,46,50,95,99,111,109,98,95,108,111,103,105,99,46,105,112,121,110,98>>
\* "2.3_control_flow.ipynb"
nb_2_3_control_flow == <<50,46,51,95,99,111,110,116,114,111,108,95,102,108,111,119,46,105,112,121,110,98>>
\* "2.4_sequential_logic.ipynb"
nb_2_4_sequential_logic == <<50,46,52,95,115,101,113,117,101,110,116,105,97,108,95,108,111,103,105,99,46,105,112,121,110,98>>
\* "2.5_exercise.ipynb"
nb_2_5_exercise == <<50,46,53,95,101,120,101,114,99,105,115,101,46,105,112,121,110,98>>
\* "2.6_chiseltest.ipynb"
nb_2_6_chiseltest == <<50,46,54,95,99,104,105,115,101,108,116,101,115,116,46,105,112,121,110,98>>
\* "3.1_parameters.ipynb"
nb_3_1_parameters == <<51,46,49,95,112,97,114,97,109,101,116,101,114,115,46,105,112,121,110,98>>
\* "3.2_collections.ipynb"
nb_3_2_collections == <<51,46,50,95,99,111,108,108,101,99,116,105,111,110,115,46,105,112,121,110,98>>
\* "3.2_interlude.ipynb"
nb_3_2_interlude == <<51,46,50,95,105,110,116,101,114,108,117,100,101,46,105,112,121,110,98>>
\* "3.3_higher-order_functions.ipynb"
nb_3_3_higher_order_functions == <<51,46,51,95,104,105,103,104,101,114,45,111,114,100,101,114,95,102,117,110,99,116,105,111,110,115,46,105,112,121,110,98>>
\* "3.4_functional_programming.ipynb"
nb_3_4_functional_programming == <<51,46,52,95,102,117,110,99,116,105,111,110,97,108,95,112,114,111,103,114,97,109,109,105,110,103,46,105,112,121,110,98>>
\* "3.5_object_oriented_programming.ipynb"
nb_3_5_object_oriented_programming == <<51,46,53,95,111,98,106,101,99,116,95,111,114,105,101,110,116,101,100,95,112,114,111,103,114,97,109,109,105,110,103,46,105,112,121,110,98>>
\* "3.6_types.ipynb"
nb_3_6_types == <<51,46,54,95,116,121,112,101,115,46,105,112,121,110,98>>
\* "4.1_firrtl_ast.ipynb"
nb_4_1_firrtl_ast == <<52,46,49,95,102,105,114,114,116,108,95,97,115,116,46,105,112,121,110,98>>
\* "4.2_firrtl_ast_traversal.ipynb"
nb_4_2_firrtl_ast_traversal == <<52,46,50,95,102,105,114,114,116,108,95,97,115,116,95,116,114,97,118,101,114,115,97,108,46,105,112,121,110,98>>
\* "4.3_firrtl_common_idioms.ipynb"
nb_4_3_firrtl_common_idioms == <<52,46,51,95,102,105,114,114,116,108,95,99,111,109,109,111,110,95,105,100,105,111,109,115,46,105,112,121,110,98>>
\* "4.4_firrtl_add_ops_per_module.ipynb"
nb_4_4_firrtl_add_ops_per_module == <<52,46,52,95,102,105,114,114,116,108,95,97,100,100,95,111,112,115,95,112,101,114,95,109,111,100,117,108,101,46,105,112,121,110,98>>
\* 'chisel3.internal.ChiselException: Exception thrown when elaborating ChiselGeneratorAnnotation'
ChiselElaborating == <<99,104,105,115,101,108,51,46,105,110,116,101,114,110,97,108,46,67,104,105,115,101,108,69,120,99,101,112,116,105,111,110,58,32,69,120,99,101,112,116,105,111,110,32,116,104,114,111,119,110,32,119,104,101,110,32,101,108,97,98,111,114,97,116,105,110,103,32,67,104,105,115,101,108,71,101,110,101,114,97,116,111,114,65,110,110,111,116,97,116,105,111,110>>
\* 'Compilation Failed'
CompilationFailed == <<67,111,109,112,105,108,97,116,105,111,110,32,70,97,105,108,101,100>>
\* 'scala.NotImplementedError'
NotImplementedError == <<115,99,97,108,97,46,78,111,116,73,109,112,108,101,109,101,110,116,101,100,69,114,114,111,114>>
\* 'java.util.NoSuchElementException'
NoSuchElementException == <<106,97,118,97,46,117,116,105,108,46,78,111,83,117,99,104,69,108,101,109,101,110,116,69,120,99,101,112,116,105,111,110>>
\* 'java.lang.UnsupportedOperationException'
UnsupportedOperationException == <<106,97,118,97,46,108,97,110,103,46,85,110,115,117,112,112,111,114,116,101,100,79,112,101,114,97,116,105,111,110,69,120,99,101,112,116,105,111,110>>
\* 'chisel3.internal.ChiselException: Connection between sink'
ConnectionBetweenSink == <<99,104,105,115,101,108,51,46,105,110,116,101,114,110,97,108,46,67,104,105,115,101,108,69,120,99,101,112,116,105,111,110,58,32,67,111,110,110,101,99,116,105,111,110,32,98,101,116,119,101,101,110,32,115,105,110,107>>
\* 'Failed to elaborate Chisel circuit'
FailedToElaborate == <<70,97,105,108,101,100,32,116,111,32,101,108,97,98,111,114,97,116,101,32,67,104,105,115,101,108,32,99,105,114,99,117,105,116>>
\* 'expected ")"'
ExpectedParen == <<101,120,112,101,99,116,101,100,32,34,41,34>>
\* 'scala.MatchError: ChiselExecutionFailure'
MatchError == <<115,99,97,108,97,46,77,97,116,99,104,69,114,114,111,114,58,32,67,104,105,115,101,108,69,120,101,99,117,116,105,111,110,70,97,105,108,117,114,101>>
\* 'FirrtlInternalException'
FirrtlInternalException == <<70,105,114,114,116,108,73,110,116,101,114,110,97,108,69,120,99,101,112,116,105,111,110>>
\* "-- No Error --"
NoError == <<45,45,32,78,111,32,69,114,114,111,114,32,45,45>>
\* "--help"
HelpFlag == <<45,45,104,101,108,112>>
\* "/"
Slash == 47

----------------------------------------------------------------------------
(* Python built-ins used by the source *)

Min(a, b) == IF a < b THEN a ELSE b
Max(a, b) == IF a < b THEN b ELSE a

\* s[:n]
Prefix(s, n) == SubSeq(s, 1, Min(Len(s), n))

\* s[n:]  (n counts the characters dropped)
Suffix(s, n) == SubSeq(s, n + 1, Len(s))

\* e in a, for strings
Contains(e, a) == \E k \in 0..(Len(a) - Len(e)) : SubSeq(a, k + 1, k + Len(e)) = e

\* a < b, for strings: by code point, a proper prefix first
RECURSIVE StrLess(_, _)
StrLess(a, b) ==
  IF b = <<>> THEN FALSE
  ELSE IF a = <<>> THEN TRUE
  ELSE IF a[1] # b[1] THEN a[1] < b[1]
  ELSE StrLess(Tail(a), Tail(b))

\* the list with x inserted before the first element greater than x
RECURSIVE Insert(_, _)
Insert(x, s) ==
  IF s = <<>> THEN <<x>>
  ELSE IF StrLess(x, s[1]) THEN <<x>> \o s
  ELSE <<s[1]>> \o Insert(x, Tail(s))

RECURSIVE SortList(_)
SortList(s) == IF s = <<>> THEN <<>> ELSE Insert(s[Len(s)], SortList(SubSeq(s, 1, Len(s) - 1)))

\* descending order
Reversed(s) == [i \in 1..Len(s) |-> s[Len(s) + 1 - i]]

SortedReversed(s) == Reversed(SortList(s))

\* sorted(d) for a list of strings (a stable ascending sort)
sorted(s) == SortList(s)

\* itertools.zip_longest(xs, ys, fillvalue=fill)
zip_longest(xs, ys, fill) ==
  [i \in 1..Max(Len(xs), Len(ys)) |->
     << IF i <= Len(xs) THEN xs[i] ELSE fill,
        IF i <= Len(ys) THEN ys[i] ELSE fill >>]

----------------------------------------------------------------------------
(* check_errors *)

TracebackPrefixLen == 100
DiagPrefixLen == 100
BarWidth == 100

Bar == [kind |-> "bar", width |-> BarWidth]
Header(file_name) == [kind |-> "header", file_name |-> file_name]
NoMatch(i, e, a) == [kind |-> "no_match", i |-> i, e |-> e, a |-> a]

\* str(x['traceback'][0][:100]); x['traceback'][0] of an empty list raises
NoSignature == "IndexError"
\* the first traceback entry, whole
UntruncatedSignature(x) == IF x.traceback = <<>> THEN NoSignature ELSE x.traceback[1]
Signature(x) ==
  IF x.traceback = <<>> THEN NoSignature ELSE Prefix(x.traceback[1], TracebackPrefixLen)

actual_tracebacks(actual) == [i \in 1..Len(actual) |-> Signature(actual[i])]

\* a comparison by equality
NotEqual(e, a) == e # a
\* line 72: e not in a
Mismatch(e, a) == ~Contains(e, a)

\* the header, whether or not it was printed before
HeaderEveryTime(return_value, file_name) == <<Bar, Header(file_name)>>
\* lines 73-75
HeaderLines(return_value, file_name) ==
  IF return_value THEN <<Bar, Header(file_name)>> ELSE <<>>

\* the loop of lines 71-77, from the i-th pair on (i counts from 1, the
\* printed index from 0), then lines 78-80
RECURSIVE check_loop(_, _, _, _, _)
check_loop(file_name, pairs, i, return_value, err) ==
  IF i > Len(pairs)
  THEN [raised |-> "none", ret |-> return_value,
        err |-> IF ~return_value THEN Append(err, Bar) ELSE err]
  ELSE LET e == pairs[i][1]
           a == pairs[i][2]
       IN IF Mismatch(e, a)
          THEN check_loop(file_name, pairs, i + 1, FALSE,
                 err \o HeaderLines(return_value, file_name)
                     \o <<NoMatch(i - 1, e, Prefix(a, DiagPrefixLen))>>)
          ELSE check_loop(file_name, pairs, i + 1, return_value, err)

check_errors(file_name, expected_, actual) ==
  IF \E i \in 1..Len(actual) : actual[i].traceback = <<>>
  THEN [raised |-> "IndexError", ret |-> FALSE, err |-> <<>>]
  ELSE check_loop(file_name, zip_longest(expected_, actual_tracebacks(actual), NoError),
                  1, TRUE, <<>>)

----------------------------------------------------------------------------
(* Values the variables of an idle component hold *)

None == "None"
\* no exit status yet
Running == -1
NoResult == [raised |-> "pending", ret |-> FALSE, err |-> <<>>]
NoFile == [dir |-> <<>>, id |-> 0]
Line(s) == [line |-> s]

IdleCheck ==
  /\ ce_file_name = <<>> /\ ce_expected = <<>> /\ ce_actual = <<>>
  /\ ce_pc = "idle" /\ ce_result = NoResult

IdleExec ==
  /\ x_argv = <<>> /\ x_pc = "idle" /\ x_calls = <<>> /\ x_exit = Running
  /\ x_stdout = <<>>

IdleMain ==
  /\ argv = <<>> /\ pc = "idle" /\ notebooks_to_run = <<>> /\ idx = 0
  /\ expected = <<>> /\ stderr = <<>> /\ stdout = <<>> /\ looked = <<>>
  /\ compared = <<>>

SeqsUpTo(S, n) == UNION {[1..k -> S] : k \in 0..n}

----------------------------------------------------------------------------
(* A direct call of check_errors on bounded inputs *)

\* "Error", a substring of the sentinel
ErrorWord == <<69,114,114,111,114>>
\* ESC[31m and ESC[39m, the colour escapes a kernel wraps an error line in
AnsiRed == <<27,91,51,49,109>>
AnsiReset == <<27,91,51,57,109>>
\* ".", repeated
Filler(n) == [i \in 1..n |-> 46]

ErrorOutput(tb) == [output_type |-> "error", traceback |-> tb]

FileNames == {nb_1_intro_to_scala, nb_4_4_firrtl_add_ops_per_module}

ExpectedPool == {<<>>, ErrorWord, CompilationFailed, NotImplementedError}

ActualPool ==
  { ErrorOutput(<<AnsiRed \o CompilationFailed \o AnsiReset, Filler(3)>>),
    ErrorOutput(<<NoError>>),
    \* the expected text ends at character 100 of a 110-character line
    ErrorOutput(<<Filler(82) \o CompilationFailed \o Filler(10)>>),
    \* the expected text straddles character 100
    ErrorOutput(<<Filler(83) \o CompilationFailed \o Filler(10)>>),
    \* the expected text starts after character 100
    ErrorOutput(<<Filler(100) \o CompilationFailed>>),
    \* the expected text is in the second traceback entry only
    ErrorOutput(<<NotImplementedError \o Filler(3), CompilationFailed>>),
    ErrorOutput(<<>>) }

InitCheck ==
  /\ ce_file_name \in FileNames
  /\ ce_expected \in SeqsUpTo(ExpectedPool, MaxLen)
  /\ ce_actual \in SeqsUpTo(ActualPool, MaxLen)
  /\ ce_pc = "ready"
  /\ ce_result = NoResult

CE_Call ==
  /\ ce_pc = "ready"
  /\ ce_result' = check_errors(ce_file_name, ce_expected, ce_actual)
  /\ ce_pc' = IF ce_result'.raised = "none" THEN "returned" ELSE "raised"
  /\ UNCHANGED <<ce_file_name, ce_expected, ce_actual>>
  /\ UNCHANGED <<xVars, mVars, rVars>>

----------------------------------------------------------------------------
(* run_notebook.py *)

\* "nonexistent.ipynb", a name that is no key of the catalog
Nonexistent == <<110,111,110,101,120,105,115,116,101,110,116,46,105,112,121,110,98>>

ExecTimeout == 300

ExecArgPool == {nb_1_intro_to_scala, nb_2_1_first_module, Nonexistent, HelpFlag}

\* what subprocess.check_call can meet: the service's exit status, with or
\* without cell errors in the executed notebook, or a failure to start it
ServiceOutcomes ==
  { [started |-> TRUE, rc |-> 0, cell_errors |-> FALSE],
    [started |-> TRUE, rc |-> 0, cell_errors |-> TRUE],
    [started |-> TRUE, rc |-> 1, cell_errors |-> FALSE],
    [started |-> TRUE, rc |-> 2, cell_errors |-> TRUE],
    [started |-> FALSE, rc |-> -1, cell_errors |-> FALSE] }

InitExec ==
  /\ x_argv \in SeqsUpTo(ExecArgPool, MaxExecArgs)
  /\ x_pc = "start"
  /\ x_calls = <<>>
  /\ x_exit = Running
  /\ x_stdout = <<>>

\* lines 10-18
X_Start ==
  /\ x_pc = "start"
  /\ IF Len(x_argv) + 1 < 2
     THEN /\ x_stdout' = x_stdout \o <<Line("usage"), Line("example")>>
          /\ x_exit' = 1
          /\ x_pc' = "exited"
     ELSE /\ x_stdout' = x_stdout \o <<Line("executing"), Line("bar")>>
          /\ x_exit' = x_exit
          /\ x_pc' = "invoke"
  /\ UNCHANGED <<x_argv, x_calls>>
  /\ UNCHANGED <<ceVars, mVars, rVars>>

\* an exit status that ignores the outcome
ExitZeroAlways(o) == 0
\* lines 31-39: the exit status after check_call met outcome o; an exception
\* other than CalledProcessError is not caught and ends the interpreter with 1
ExitAfter(o) == IF o.started /\ o.rc = 0 THEN 0 ELSE 1

\* lines 21-39
X_Invoke ==
  /\ x_pc = "invoke"
  /\ \E o \in ServiceOutcomes :
       /\ x_calls' = Append(x_calls,
            [notebook |-> x_argv[1], allow_errors |-> TRUE, inplace |-> TRUE,
             timeout |-> ExecTimeout, outcome |-> o])
       /\ x_stdout' = x_stdout \o
            (IF ~o.started THEN <<Line("traceback")>>
             ELSE IF o.rc = 0 THEN <<Line("bar"), Line("success")>>
             ELSE <<Line("bar"), Line("error"), [line |-> "exit_code", rc |-> o.rc]>>)
       /\ x_exit' = ExitAfter(o)
  /\ x_pc' = "exited"
  /\ UNCHANGED x_argv
  /\ UNCHANGED <<ceVars, mVars, rVars>>

----------------------------------------------------------------------------
(* The expectation catalog (runtest.py, lines 83-122), in source order *)

Rep(s, n) == [i \in 1..n |-> s]

notebooks ==
  << <<nb_1_intro_to_scala, <<>> >>,
     <<nb_2_1_first_module, <<ChiselElaborating>> >>,
     <<nb_2_2_comb_logic, <<CompilationFailed>> \o <<ChiselElaborating>>
                          \o <<ChiselElaborating>> \o <<ChiselElaborating>> >>,
     <<nb_2_3_control_flow, Rep(NotImplementedError, 2) \o <<CompilationFailed>>
                            \o <<NotImplementedError>> \o <<CompilationFailed>> >>,
     <<nb_2_4_sequential_logic, Rep(ChiselElaborating, 2) >>,
     <<nb_2_5_exercise, Rep(ChiselElaborating, 3) \o <<CompilationFailed>> >>,
     <<nb_2_6_chiseltest, <<>> >>,
     <<nb_3_1_parameters, <<NoSuchElementException>> >>,
     <<nb_3_2_collections, <<ChiselElaborating>> >>,
     <<nb_3_2_interlude, <<>> >>,
     <<nb_3_3_higher_order_functions, <<NotImplementedError>>
          \o <<UnsupportedOperationException>> \o Rep(NotImplementedError, 2)
          \o <<ChiselElaborating>> >>,
     <<nb_3_4_functional_programming, <<NotImplementedError>> \o <<CompilationFailed>>
          \o <<NotImplementedError>> \o <<CompilationFailed>> >>,
     <<nb_3_5_object_oriented_programming, <<CompilationFailed>> >>,
     <<nb_3_6_types, <<ConnectionBetweenSink>> \o <<FailedToElaborate>>
          \o <<ExpectedParen>> \o <<MatchError>> \o Rep(CompilationFailed, 5) >>,
     <<nb_4_1_firrtl_ast, <<>> >>,
     <<nb_4_2_firrtl_ast_traversal, <<>> >>,
     <<nb_4_3_firrtl_common_idioms, <<>> >>,
     <<nb_4_4_firrtl_add_ops_per_module, <<FirrtlInternalException>> >> >>

\* iterating the dict: its keys, in insertion order
KeyList == [i \in 1..Len(notebooks) |-> notebooks[i][1]]
Keys == {KeyList[i] : i \in 1..Len(KeyList)}

\* notebooks[n], for a key n
Lookup(n) == notebooks[CHOOSE i \in 1..Len(notebooks) : notebooks[i][1] = n][2]

----------------------------------------------------------------------------
(* The process environment of _notebook_run: directories, temporary files *)

DirW == <<119>>
DirSub == <<115,117,98>>
DirDeep == <<100,101,101,112>>
DirTmp == <<116,109,112>>

\* the directories that exist, each a list of path components from the root:
\* /, /tmp, /w, /w/sub, /w/deep, /w/deep/deep
Dirs == { <<>>, <<DirTmp>>, <<DirW>>, <<DirW, DirSub>>, <<DirW, DirDeep>>,
          <<DirW, DirDeep, DirDeep>> }

\* p.rfind('/') + 1
RECURSIVE RFindSlash(_)
RFindSlash(p) ==
  IF p = <<>> THEN 0
  ELSE IF p[Len(p)] = Slash THEN Len(p)
  ELSE RFindSlash(SubSeq(p, 1, Len(p) - 1))

\* s.rstrip('/')
RECURSIVE RStripSlash(_)
RStripSlash(s) ==
  IF s # <<>> /\ s[Len(s)] = Slash THEN RStripSlash(SubSeq(s, 1, Len(s) - 1)) ELSE s

\* os.path.split(p) of posixpath: <<head, tail>>
split(p) ==
  LET i == RFindSlash(p)
      head == Prefix(p, i)
      tail == Suffix(p, i)
  IN << IF head # <<>> /\ (\E k \in 1..Len(head) : head[k] # Slash)
        THEN RStripSlash(head) ELSE head,
        tail >>

\* the components of a path between its slashes
RECURSIVE Components(_)
Components(s) ==
  IF s = <<>> THEN <<>>
  ELSE IF s[1] = Slash THEN Components(Tail(s))
  ELSE LET n == CHOOSE k \in 1..Len(s) :
                  /\ \A j \in 1..k : s[j] # Slash
                  /\ (k = Len(s) \/ s[k + 1] = Slash)
       IN <<SubSeq(s, 1, n)>> \o Components(Suffix(s, n))

\* the directory a path names for a process whose working directory is base
Resolve(base, d) ==
  IF d # <<>> /\ d[1] = Slash THEN Components(d) ELSE base \o Components(d)

\* os.chdir(dirname): fails when the directory does not exist, and may fail
\* when it does (no permission)
ChdirOutcomes(target) == IF target \in Dirs THEN {"ok", "OSError"} ELSE {"OSError"}

\* tempfile.mkstemp(dir=d): fails when d does not exist, and may fail when it
\* does (not writable, no space)
MkstempOutcomes(d) == IF d \in Dirs THEN {"ok", "OSError"} ELSE {"OSError"}

CheckCallOutcomes == {"ok", "CalledProcessError", "OSError"}

\* os.unlink(temp_path): the environment refuses at most MaxUnlinkFailures
\* deletions in one process
UnlinkOutcomes(left) ==
  IF Cardinality(left) < MaxUnlinkFailures THEN {"ok", "OSError"} ELSE {"ok"}

BatchTimeout == 60

----------------------------------------------------------------------------
(* Executed notebook documents *)

StreamOutput == [output_type |-> "stream"]
OtherError == ErrorOutput(<<AnsiRed \o MatchError \o AnsiReset>>)

\* an executed document with a markdown cell and one code cell per error
DocWith(errs) ==
  << [cell_type |-> "markdown"] >> \o
  [i \in 1..Len(errs) |->
     [cell_type |-> "code", outputs |-> <<StreamOutput, errs[i]>>]]

\* the errors a notebook raises when they are the expected ones
ExactErrors(E) ==
  [i \in 1..Len(E) |-> ErrorOutput(<<AnsiRed \o E[i] \o AnsiReset, Filler(3)>>)]

\* the documents the execution service may leave for the notebook at p
ExecutedDocs(p) ==
  IF p \in Keys
  THEN LET E == Lookup(p)
       IN { DocWith(ExactErrors(E)),
            DocWith(Append(ExactErrors(E), OtherError)),
            DocWith(SubSeq(ExactErrors(E), 1, Len(E) - 1)),
            DocWith([i \in 1..Len(E) |-> OtherError]),
            DocWith(<<ErrorOutput(<<>>)>>) }
  ELSE { DocWith(<<>>), DocWith(<<OtherError>>), DocWith(<<ErrorOutput(<<>>)>>) }

RECURSIVE Flatten(_)
Flatten(ss) == IF ss = <<>> THEN <<>> ELSE ss[1] \o Flatten(Tail(ss))

IsError(output) == output.output_type = "error"

\* lines 41-43
errors_of(nb) ==
  Flatten([c \in 1..Len(nb) |->
             IF "outputs" \in DOMAIN nb[c]
             THEN SelectSeq(nb[c].outputs, IsError)
             ELSE <<>>])

----------------------------------------------------------------------------
(* _notebook_run (runtest.py, lines 13-53), one action per statement that   *)
(* can raise                                                               *)

IdleRun ==
  /\ path = <<>> /\ rpc = "idle" /\ dirname = <<>> /\ notebook_path = <<>>
  /\ original_dir = <<>> /\ temp_path = NoFile /\ fd_open = FALSE
  /\ exc = None /\ errors = <<>> /\ files = {} /\ next_tmp = 1
  /\ executed = <<>> /\ call_cwd = <<>> /\ created = NoFile /\ steps = <<>>
  /\ calls = 0

\* the call itself: the locals of the new frame, and what the caller sees
BeginCall(p) ==
  /\ path' = p
  /\ rpc' = "enter"
  /\ dirname' = <<>> /\ notebook_path' = <<>> /\ original_dir' = <<>>
  /\ temp_path' = NoFile /\ fd_open' = FALSE /\ exc' = None /\ errors' = <<>>
  /\ call_cwd' = cwd /\ created' = NoFile /\ steps' = <<>>
  /\ UNCHANGED <<cwd, files, next_tmp, tmpdir, executed>>

\* lines 17-23
NR_Enter ==
  /\ rpc = "enter"
  /\ LET d == split(path)[1]
         b == split(path)[2]
         target == Resolve(cwd, d)
     IN /\ dirname' = d
        /\ original_dir' = cwd
        /\ IF Len(d) > 0
           THEN \E o \in ChdirOutcomes(target) :
                  /\ steps' = Append(steps, <<"chdir", o>>)
                  /\ IF o = "ok"
                     THEN /\ cwd' = target
                          /\ notebook_path' = b
                          /\ rpc' = "mkstemp"
                          /\ exc' = exc
                     ELSE /\ cwd' = cwd
                          /\ notebook_path' = notebook_path
                          /\ rpc' = "raised"
                          /\ exc' = o
           ELSE /\ steps' = steps
                /\ cwd' = cwd
                /\ notebook_path' = path
                /\ rpc' = "mkstemp"
                /\ exc' = exc
  /\ UNCHANGED <<path, temp_path, fd_open, errors, files, next_tmp, tmpdir,
                 executed, call_cwd, created, calls>>
  /\ UNCHANGED <<ceVars, xVars, mVars>>

\* line 27; dir=None is tempfile.gettempdir()
NR_Mkstemp ==
  /\ rpc = "mkstemp"
  /\ LET d == IF dirname # <<>> THEN Resolve(cwd, dirname) ELSE tmpdir
         f == [dir |-> d, id |-> next_tmp]
     IN \E o \in MkstempOutcomes(d) :
          /\ steps' = Append(steps, <<"mkstemp", o>>)
          /\ IF o = "ok"
             THEN /\ temp_path' = f
                  /\ created' = f
                  /\ files' = files \cup {f}
                  /\ next_tmp' = next_tmp + 1
                  /\ fd_open' = TRUE
                  /\ rpc' = "close"
                  /\ exc' = exc
             ELSE /\ UNCHANGED <<temp_path, created, files, next_tmp, fd_open>>
                  /\ rpc' = "raised"
                  /\ exc' = o
  /\ UNCHANGED <<path, dirname, notebook_path, original_dir, cwd, errors,
                 tmpdir, executed, call_cwd, calls>>
  /\ UNCHANGED <<ceVars, xVars, mVars>>

\* lines 28-29; closing the descriptor mkstemp has just returned succeeds
NR_Close ==
  /\ rpc = "close"
  /\ steps' = Append(steps, <<"close", "ok">>)
  /\ fd_open' = FALSE
  /\ rpc' = "exec"
  /\ UNCHANGED <<path, dirname, notebook_path, original_dir, cwd, temp_path, exc,
                 errors, files, next_tmp, tmpdir, executed, call_cwd, created,
                 calls>>
  /\ UNCHANGED <<ceVars, xVars, mVars>>

\* lines 30-35 without the finally block: an exception leaves at once
NR_Exec_NoFinally ==
  /\ rpc = "exec"
  /\ \E o \in CheckCallOutcomes :
       /\ steps' = Append(steps, <<"check_call", o>>)
       /\ executed' = Append(executed,
            [notebook |-> notebook_path, cwd |-> cwd, output |-> temp_path.id,
             allow_errors |-> TRUE, timeout |-> BatchTimeout])
       /\ IF o = "ok"
          THEN rpc' = "read" /\ exc' = exc
          ELSE rpc' = "raised" /\ exc' = o
  /\ UNCHANGED <<path, dirname, notebook_path, original_dir, cwd, temp_path,
                 fd_open, errors, files, next_tmp, tmpdir, call_cwd, created,
                 calls>>
  /\ UNCHANGED <<ceVars, xVars, mVars>>

\* lines 30-35; an exception enters the finally block of line 46
NR_Exec ==
  /\ rpc = "exec"
  /\ \E o \in CheckCallOutcomes :
       /\ steps' = Append(steps, <<"check_call", o>>)
       /\ executed' = Append(executed,
            [notebook |-> notebook_path, cwd |-> cwd, output |-> temp_path.id,
             allow_errors |-> TRUE, timeout |-> BatchTimeout])
       /\ IF o = "ok"
          THEN rpc' = "read" /\ exc' = exc
          ELSE rpc' = "unlink" /\ exc' = o
  /\ UNCHANGED <<path, dirname, notebook_path, original_dir, cwd, temp_path,
                 fd_open, errors, files, next_tmp, tmpdir, call_cwd, created,
                 calls>>
  /\ UNCHANGED <<ceVars, xVars, mVars>>

\* lines 38-45: the document is unreadable, or it is one of ExecutedDocs
NR_Read ==
  /\ rpc = "read"
  /\ \/ /\ steps' = Append(steps, <<"read", "ReadError">>)
        /\ exc' = "ReadError"
        /\ errors' = errors
     \/ \E nb \in ExecutedDocs(path) :
          /\ steps' = Append(steps, <<"read", "ok">>)
          /\ exc' = exc
          /\ errors' = errors_of(nb)
  /\ rpc' = "unlink"
  /\ UNCHANGED <<path, dirname, notebook_path, original_dir, cwd, temp_path,
                 fd_open, files, next_tmp, tmpdir, executed, call_cwd, created,
                 calls>>
  /\ UNCHANGED <<ceVars, xVars, mVars>>

\* lines 46-51: an OSError of os.unlink is swallowed
NR_Unlink ==
  /\ rpc = "unlink"
  /\ \E o \in UnlinkOutcomes(files \ {temp_path}) :
       /\ steps' = Append(steps, <<"unlink", o>>)
       /\ files' = IF o = "ok" THEN files \ {temp_path} ELSE files
  /\ rpc' = "restore"
  /\ UNCHANGED <<path, dirname, notebook_path, original_dir, cwd, temp_path,
                 fd_open, exc, errors, next_tmp, tmpdir, executed, call_cwd,
                 created, calls>>
  /\ UNCHANGED <<ceVars, xVars, mVars>>

\* line 53, then the pending return (line 45) or exception
NR_Restore ==
  /\ rpc = "restore"
  /\ cwd' = original_dir
  /\ steps' = Append(steps, <<"chdir_back", "ok">>)
  /\ rpc' = IF exc = None THEN "returned" ELSE "raised"
  /\ UNCHANGED <<path, dirname, notebook_path, original_dir, temp_path, fd_open,
                 exc, errors, files, next_tmp, tmpdir, executed, call_cwd,
                 created, calls>>
  /\ UNCHANGED <<ceVars, xVars, mVars>>

----------------------------------------------------------------------------
(* Direct calls of _notebook_run, by a caller that survives its exceptions *)

PathNb == <<110,98,46,105,112,121,110,98>>
PathSubNb == <<115,117,98,47,110,98,46,105,112,121,110,98>>
PathAbsSubNb == <<47,119,47,115,117,98,47,110,98,46,105,112,121,110,98>>
PathDeepNb == <<100,101,101,112,47,110,98,46,105,112,121,110,98>>

\* nb.ipynb, sub/nb.ipynb, /w/sub/nb.ipynb, deep/nb.ipynb
PathPool == {PathNb, PathSubNb, PathAbsSubNb, PathDeepNb}

InitRun ==
  /\ IdleRun
  /\ cwd \in {<<DirW>>, <<DirTmp>>}
  /\ tmpdir \in {<<DirTmp>>, <<DirW>>}

R_Call ==
  /\ rpc \in {"idle", "returned", "raised"}
  /\ calls < MaxCalls
  /\ calls' = calls + 1
  /\ \E p \in PathPool : BeginCall(p)
  /\ UNCHANGED <<ceVars, xVars, mVars>>

----------------------------------------------------------------------------
(* The __main__ block of runtest.py (lines 124-138); argv is sys.argv[1:]   *)

ArgPool == {nb_1_intro_to_scala, nb_3_1_parameters, nb_2_3_control_flow,
            Nonexistent, HelpFlag}

InitMain ==
  /\ argv \in SeqsUpTo(ArgPool, MaxArgs)
  /\ pc = "start"
  /\ notebooks_to_run = <<>>
  /\ idx = 0
  /\ expected = <<>>
  /\ stderr = <<>>
  /\ stdout = <<>>
  /\ looked = <<>>
  /\ compared = <<>>

\* lines 125-134
M_Start ==
  /\ pc = "start"
  /\ IF Len(argv) + 1 > 1
     THEN IF argv[1] = HelpFlag
          THEN /\ stdout' = stdout \o <<Line("usage"), Line("default")>>
               /\ pc' = "exit_0"
               /\ UNCHANGED <<notebooks_to_run, idx>>
          ELSE /\ notebooks_to_run' = argv
               /\ pc' = "loop"
               /\ idx' = 1
               /\ stdout' = stdout
     ELSE /\ notebooks_to_run' = sorted(KeyList)
          /\ pc' = "loop"
          /\ idx' = 1
          /\ stdout' = stdout
  /\ UNCHANGED <<argv, expected, stderr, looked, compared>>
  /\ UNCHANGED rVars
  /\ UNCHANGED <<ceVars, xVars>>

\* a lookup that takes an unknown name to expect no errors (dict.get)
M_Lookup_Default ==
  /\ pc = "loop"
  /\ idx <= Len(notebooks_to_run)
  /\ LET n == notebooks_to_run[idx]
     IN /\ looked' = Append(looked, n)
        /\ expected' = IF n \in Keys THEN Lookup(n) ELSE <<>>
        /\ pc' = "run"
        /\ BeginCall(n)
        /\ calls' = calls + 1
  /\ UNCHANGED <<argv, notebooks_to_run, idx, stderr, stdout, compared>>
  /\ UNCHANGED <<ceVars, xVars>>

\* lines 135-137: the next n, expected = notebooks[n], and the call
\* _notebook_run(n)
M_Lookup ==
  /\ pc = "loop"
  /\ idx <= Len(notebooks_to_run)
  /\ LET n == notebooks_to_run[idx]
     IN /\ looked' = Append(looked, n)
        /\ IF n \in Keys
           THEN /\ expected' = Lookup(n)
                /\ pc' = "run"
                /\ BeginCall(n)
                /\ calls' = calls + 1
           ELSE /\ expected' = expected
                /\ pc' = "KeyError"
                /\ UNCHANGED rVars
  /\ UNCHANGED <<argv, notebooks_to_run, idx, stderr, stdout, compared>>
  /\ UNCHANGED <<ceVars, xVars>>

\* line 135, the list is exhausted
M_Finish ==
  /\ pc = "loop"
  /\ idx > Len(notebooks_to_run)
  /\ pc' = "done"
  /\ UNCHANGED <<argv, notebooks_to_run, idx, expected, stderr, stdout, looked,
                 compared>>
  /\ UNCHANGED rVars
  /\ UNCHANGED <<ceVars, xVars>>

\* line 137: an exception of _notebook_run is not caught
M_Raise ==
  /\ pc = "run"
  /\ rpc = "raised"
  /\ pc' = "uncaught"
  /\ stderr' = Append(stderr, [kind |-> "traceback", exc |-> exc])
  /\ UNCHANGED <<argv, notebooks_to_run, idx, expected, stdout, looked, compared>>
  /\ UNCHANGED rVars
  /\ UNCHANGED <<ceVars, xVars>>

\* the comparison without the assert: the loop goes on after a mismatch
M_Check_Continue ==
  /\ pc = "run"
  /\ rpc = "returned"
  /\ LET n == notebooks_to_run[idx]
         r == check_errors(n, expected, errors)
     IN /\ stderr' = stderr \o r.err
        /\ compared' = Append(compared, [n |-> n, ret |-> r.ret])
        /\ pc' = "loop"
        /\ idx' = idx + 1
  /\ rpc' = "idle"
  /\ UNCHANGED <<argv, notebooks_to_run, expected, stdout, looked>>
  /\ UNCHANGED <<path, dirname, notebook_path, original_dir, cwd, temp_path,
                 fd_open, exc, errors, files, next_tmp, tmpdir, executed,
                 call_cwd, created, steps, calls>>
  /\ UNCHANGED <<ceVars, xVars>>

\* lines 137-138: nb, errors = the returned pair; assert check_errors(...);
\* an IndexError of line 68 is not caught
M_Check ==
  /\ pc = "run"
  /\ rpc = "returned"
  /\ LET n == notebooks_to_run[idx]
         r == check_errors(n, expected, errors)
     IN IF r.raised # "none"
        THEN /\ stderr' = Append(stderr, [kind |-> "traceback", exc |-> r.raised])
             /\ compared' = compared
             /\ pc' = "uncaught"
             /\ idx' = idx
        ELSE /\ stderr' = stderr \o r.err
             /\ compared' = Append(compared, [n |-> n, ret |-> r.ret])
             /\ IF r.ret
                THEN pc' = "loop" /\ idx' = idx + 1
                ELSE pc' = "AssertionError" /\ idx' = idx
  /\ rpc' = "idle"
  /\ UNCHANGED <<argv, notebooks_to_run, expected, stdout, looked>>
  /\ UNCHANGED <<path, dirname, notebook_path, original_dir, cwd, temp_path,
                 fd_open, exc, errors, files, next_tmp, tmpdir, executed,
                 call_cwd, created, steps, calls>>
  /\ UNCHANGED <<ceVars, xVars>>

----------------------------------------------------------------------------
(* Specifications *)

\* python runtest.py [args], started in /w
Init ==
  /\ InitMain
  /\ IdleRun
  /\ cwd = <<DirW>>
  /\ tmpdir \in {<<DirTmp>>, <<DirW>>}
  /\ IdleCheck
  /\ IdleExec

Next ==
  \/ M_Start \/ M_Lookup \/ M_Finish \/ M_Raise \/ M_Check
  \/ NR_Enter \/ NR_Mkstemp \/ NR_Close \/ NR_Exec \/ NR_Read \/ NR_Unlink
  \/ NR_Restore

Spec == Init /\ [][Next]_vars

\* direct calls of _notebook_run
InitRunSpec == InitRun /\ IdleMain /\ IdleCheck /\ IdleExec

NextRun ==
  \/ R_Call
  \/ NR_Enter \/ NR_Mkstemp \/ NR_Close \/ NR_Exec \/ NR_Read \/ NR_Unlink
  \/ NR_Restore

SpecRun == InitRunSpec /\ [][NextRun]_vars

\* a direct call of check_errors
InitCheckSpec == InitCheck /\ IdleMain /\ IdleRun /\ cwd = <<DirW>> /\ tmpdir = <<DirTmp>> /\ IdleExec

NextCheck == CE_Call

SpecCheck == InitCheckSpec /\ [][NextCheck]_vars

\* python run_notebook.py [args]
InitExecSpec == InitExec /\ IdleMain /\ IdleRun /\ cwd = <<DirW>> /\ tmpdir = <<DirTmp>> /\ IdleCheck

NextExec == X_Start \/ X_Invoke

SpecExec == InitExecSpec /\ [][NextExec]_vars

----------------------------------------------------------------------------
(* Properties of check_errors, checked under SpecCheck *)

Range(s) == {s[i] : i \in 1..Len(s)}

\* e occurs in s at some offset k, wholly within the first n characters of s
OccursWithin(e, s, n) ==
  \E k \in 0..Len(s) :
    /\ k + Len(e) <= n
    /\ k + Len(e) <= Len(s)
    /\ \A j \in 1..Len(e) : s[k + j] = e[j]

Occurs(e, s) == OccursWithin(e, s, Len(s))

\* e occurs in s across character n: it starts at or before n and ends after it
Straddles(e, s, n) ==
  \E k \in 0..Len(s) :
    /\ k < n /\ k + Len(e) > n
    /\ k + Len(e) <= Len(s)
    /\ \A j \in 1..Len(e) : s[k + j] = e[j]

\* the i-th pair of the sentinel-padded walk over E and the signatures of A
PadExpected(E, i) == IF i <= Len(E) THEN E[i] ELSE NoError
PadActual(A, i) ==
  IF i <= Len(A)
  THEN SubSeq(A[i].traceback[1], 1, Min(100, Len(A[i].traceback[1])))
  ELSE NoError
WalkLen(E, A) == Max(Len(E), Len(A))
MismatchedAt(E, A) ==
  {i \in 1..WalkLen(E, A) : ~Occurs(PadExpected(E, i), PadActual(A, i))}

IsNoMatch(line) == line.kind = "no_match"
Diagnostics(err) == SelectSeq(err, IsNoMatch)
HeaderPositions(err) == {k \in 1..Len(err) : err[k].kind = "header"}
DiagnosticPositions(err) == {k \in 1..Len(err) : err[k].kind = "no_match"}

\* a diagnostic was printed for index i (counted from 0)
DiagAt(i) == \E d \in Range(Diagnostics(ce_result.err)) : d.i = i

\* C1: whenever the expected list and the actual list differ in length,
\* check_errors returns False.
C1_LengthMismatchFails ==
  (ce_pc = "returned" /\ Len(ce_expected) # Len(ce_actual))
    => ce_result.ret = FALSE

\* C6: for lists of equal length and an actual error whose first traceback
\* entry is longer than 100 characters, position i matches (no diagnostic)
\* when expected[i] occurs wholly within the first 100 characters, and does
\* not match (a diagnostic, and the result False) when it does not, even if
\* it occurs further on or across character 100.
C6_TruncatedComparison ==
  (ce_pc = "returned" /\ Len(ce_expected) = Len(ce_actual)) =>
    \A i \in 1..Len(ce_expected) :
      LET full == ce_actual[i].traceback[1]
      IN Len(full) > 100 =>
           /\ OccursWithin(ce_expected[i], full, 100) => ~DiagAt(i - 1)
           /\ ~OccursWithin(ce_expected[i], full, 100) =>
                DiagAt(i - 1) /\ ce_result.ret = FALSE

\* a call where one expected string lies inside the first 100 characters of
\* a longer line and matched, and another straddles character 100 and did not
C6_Witness ==
  /\ ce_pc = "returned"
  /\ Len(ce_expected) = Len(ce_actual)
  /\ \E i \in 1..Len(ce_expected) :
       /\ Len(ce_actual[i].traceback[1]) > 100
       /\ ce_expected[i] # <<>>
       /\ OccursWithin(ce_expected[i], ce_actual[i].traceback[1], 100)
       /\ ~DiagAt(i - 1)
  /\ \E i \in 1..Len(ce_expected) :
       /\ Straddles(ce_expected[i], ce_actual[i].traceback[1], 100)
       /\ ~OccursWithin(ce_expected[i], ce_actual[i].traceback[1], 100)
       /\ DiagAt(i - 1)
  /\ ce_result.ret = FALSE

\* C7: for lists of equal length where every expected[i] is a substring of
\* the first 100 characters of actual[i]'s first traceback entry, the call
\* returns True and prints nothing; two empty lists are such a pair.
C7_AllMatchSucceeds ==
  ( /\ ce_pc # "ready"
    /\ Len(ce_expected) = Len(ce_actual)
    /\ \A i \in 1..Len(ce_expected) :
         /\ ce_actual[i].traceback # <<>>
         /\ OccursWithin(ce_expected[i], ce_actual[i].traceback[1], 100) )
    => /\ ce_pc = "returned"
       /\ ce_result.ret = TRUE
       /\ ce_result.err = <<>>

\* a call on two non-empty lists that matched at every position, at one of
\* them as a proper substring
C7_Witness ==
  /\ ce_pc = "returned"
  /\ Len(ce_expected) = Len(ce_actual)
  /\ Len(ce_expected) >= 2
  /\ \A i \in 1..Len(ce_expected) :
       /\ ce_expected[i] # <<>>
       /\ OccursWithin(ce_expected[i], ce_actual[i].traceback[1], 100)
  /\ \E i \in 1..Len(ce_expected) : ce_expected[i] # ce_actual[i].traceback[1]
  /\ ce_result.ret = TRUE

\* C10: check_errors returns True exactly when no position of the padded walk
\* is a mismatch; when it returns False the header naming the notebook is
\* printed once, before the first diagnostic, and there is exactly one
\* diagnostic (index, expected, actual) per mismatched position, in
\* increasing index order, and none for a matching position.
C10_ResultAndDiagnostics ==
  ce_pc = "returned" =>
    LET err == ce_result.err
        M == MismatchedAt(ce_expected, ce_actual)
        D == Diagnostics(err)
    IN /\ ce_result.ret <=> (M = {})
       /\ ~ce_result.ret =>
            /\ Cardinality(HeaderPositions(err)) = 1
            /\ \A h \in HeaderPositions(err) :
                 /\ err[h].file_name = ce_file_name
                 /\ \A k \in DiagnosticPositions(err) : h < k
       /\ Len(D) = Cardinality(M)
       /\ \A k \in 1..Len(D) :
            /\ D[k].i + 1 \in M
            /\ D[k].e = PadExpected(ce_expected, D[k].i + 1)
            /\ D[k].a = PadActual(ce_actual, D[k].i + 1)
       /\ \A k \in 1..(Len(D) - 1) : D[k].i < D[k + 1].i

\* a call that returned False with two diagnostics, one of them for a
\* position the shorter list was padded at
C10_Witness ==
  /\ ce_pc = "returned"
  /\ ce_result.ret = FALSE
  /\ Len(ce_expected) # Len(ce_actual)
  /\ Len(Diagnostics(ce_result.err)) = 2
  /\ Cardinality(HeaderPositions(ce_result.err)) = 1

----------------------------------------------------------------------------
(* Properties of run_notebook.py, checked under SpecExec *)

\* C9: without a notebook argument the executor ends with exit code 1 and
\* never invokes the execution service; with one it invokes the service once
\* and ends with exit code 0 exactly when the service exits successfully,
\* cell errors or not, and with exit code 1 when the service fails.
C9_ExitCodes ==
  /\ x_argv = <<>> => x_calls = <<>>
  /\ Len(x_calls) <= 1
  /\ x_pc # "exited" => x_exit = Running
  /\ x_pc = "exited" =>
       /\ x_argv = <<>> => x_exit = 1
       /\ x_argv # <<>> =>
            /\ Len(x_calls) = 1
            /\ x_calls[1].notebook = x_argv[1]
            /\ x_exit = 0 <=> (x_calls[1].outcome.started /\ x_calls[1].outcome.rc = 0)
            /\ x_exit # 0 => x_exit = 1

\* a run whose notebook raised cell errors while the service exited with 0
C9_Witness ==
  /\ x_pc = "exited"
  /\ x_argv # <<>>
  /\ Len(x_calls) = 1
  /\ x_calls[1].outcome.started
  /\ x_calls[1].outcome.rc = 0
  /\ x_calls[1].outcome.cell_errors
  /\ x_exit = 0

----------------------------------------------------------------------------
(* Properties of _notebook_run, checked under SpecRun *)

CallEnded == rpc \in {"returned", "raised"}

StepCount(name) == Cardinality({k \in 1..Len(steps) : steps[k][1] = name})

\* C2: when a call of _notebook_run has ended, by a return or by an
\* exception, the working directory is the one the call started in.
C2_WorkingDirectoryRestored == CallEnded => cwd = call_cwd

\* C3 as stated: when a call that created a temporary file has ended, by a
\* return or by an exception, that file is no longer on disk.
C3_TemporaryFileGone == (CallEnded /\ created # NoFile) => created \notin files

\* C3 as amended: when a call that created a temporary file has ended,
\* os.unlink was attempted exactly once, on the return path and on both
\* exception paths; the file is gone exactly when that unlink succeeded; an
\* OSError of the unlink is swallowed: the file stays, and the call still
\* returns exactly when the read-back succeeded.
C3_UnlinkOnEveryTryPath ==
  (CallEnded /\ created # NoFile) =>
    /\ <<"close", "ok">> \in Range(steps)
    /\ StepCount("unlink") = 1
    /\ created \notin files <=> <<"unlink", "ok">> \in Range(steps)
    /\ <<"unlink", "OSError">> \in Range(steps) => created \in files
    /\ rpc = "returned" <=> <<"read", "ok">> \in Range(steps)

\* a call that created its temporary file, met a failure of the execution
\* service, deleted the file and raised
C3_Witness ==
  /\ rpc = "raised"
  /\ created # NoFile
  /\ <<"check_call", "CalledProcessError">> \in Range(steps)
  /\ <<"unlink", "ok">> \in Range(steps)
  /\ created \notin files

----------------------------------------------------------------------------
(* Properties of the batch runner, checked under Spec *)

\* the run is a batch run: its first argument is not --help
BatchRun == argv = <<>> \/ argv[1] # HelpFlag

Ended == pc \in {"exit_0", "done", "KeyError", "AssertionError", "uncaught"}

UnknownPositions == {i \in 1..Len(argv) : argv[i] \notin Keys}

FirstUnknown == CHOOSE p \in UnknownPositions : \A q \in UnknownPositions : p <= q

\* a sorts before b: at the first position where they differ a has the
\* smaller code point, or a ends there and b does not
LexBefore(a, b) ==
  \E k \in 1..(Min(Len(a), Len(b)) + 1) :
    /\ \A j \in 1..(k - 1) : a[j] = b[j]
    /\ \/ k > Len(a) /\ k <= Len(b)
       \/ k <= Len(a) /\ k <= Len(b) /\ a[k] < b[k]

\* s lists every key of the catalog once, in ascending order
IsSortedKeyList(s) ==
  /\ Len(s) = Cardinality(Keys)
  /\ Range(s) = Keys
  /\ \A i \in 1..Len(s) : \A j \in 1..Len(s) : i < j => LexBefore(s[i], s[j])

\* the first k notebooks of the order were looked up, executed and passed
PassedUpTo(k) ==
  /\ Len(looked) >= k /\ Len(executed) >= k /\ Len(compared) >= k
  /\ \A j \in 1..k :
       /\ looked[j] = notebooks_to_run[j]
       /\ executed[j].notebook = notebooks_to_run[j]
       /\ compared[j].n = notebooks_to_run[j]
       /\ compared[j].ret = TRUE

\* C4 as stated: in a batch run whose arguments hold a name that is no key
\* of the catalog, the execution service is never invoked, and the run ends
\* with the lookup failure.
C4_NoExecutionBeforeLookupFailure ==
  (BatchRun /\ UnknownPositions # {}) =>
    /\ executed = <<>>
    /\ Ended => pc = "KeyError"

\* C4 as amended: in a batch run whose arguments hold a name that is no key
\* of the catalog, p being the first such position, the execution service is
\* never invoked for position p or a later one; the lookup of position p
\* raises the lookup failure before any execution for it, after the p-1
\* notebooks before it were executed and passed; the run never completes;
\* and when p is the first argument no execution is attempted at all and the
\* run ends with the lookup failure.
C4_LookupFailureAtItsPosition ==
  (BatchRun /\ UnknownPositions # {}) =>
    LET p == FirstUnknown
    IN /\ Len(executed) < p
       /\ Len(looked) <= p
       /\ Len(looked) = p => pc = "KeyError"
       /\ pc = "KeyError" =>
            /\ Len(looked) = p
            /\ Len(executed) = p - 1
            /\ PassedUpTo(p - 1)
       /\ pc # "done"
       /\ p = 1 => executed = <<>> /\ (Ended => pc = "KeyError")

\* a run that executed and passed its first notebook and then met the
\* lookup failure of its second argument
C4_Witness ==
  /\ BatchRun
  /\ pc = "KeyError"
  /\ FirstUnknown = 2
  /\ Len(executed) = 1
  /\ Len(compared) = 1

\* C5: the first comparison that returns False aborts the run: it is the
\* last comparison, every mismatched position of that notebook has its
\* diagnostic on the diagnostic stream, and no later notebook is looked up,
\* executed or compared.
C5_FailFast ==
  \A k \in 1..Len(compared) :
    compared[k].ret = FALSE =>
      /\ k = Len(compared)
      /\ pc = "AssertionError"
      /\ Len(looked) = k
      /\ Len(executed) = k
      /\ idx = k
      /\ \A i \in MismatchedAt(expected, errors) :
           \E d \in Range(Diagnostics(stderr)) :
             /\ d.i = i - 1
             /\ d.e = PadExpected(expected, i)
             /\ d.a = PadActual(errors, i)
      /\ Len(Diagnostics(stderr)) = Cardinality(MismatchedAt(expected, errors))
      /\ Cardinality(MismatchedAt(expected, errors)) >= 1

\* a run aborted at its third notebook, after two that passed, with several
\* diagnostics printed and notebooks left in the list
C5_Witness ==
  /\ pc = "AssertionError"
  /\ Len(compared) = 3
  /\ compared[1].ret = TRUE
  /\ compared[2].ret = TRUE
  /\ compared[3].ret = FALSE
  /\ Len(Diagnostics(stderr)) >= 2
  /\ Len(notebooks_to_run) > 3

\* C8: without arguments the order is every key of the catalog once, sorted;
\* with arguments it is the arguments as given, duplicates included.  The
\* notebooks are looked up, executed and compared along that order, each only
\* after all before it were executed and passed, and a run that completes
\* has processed all of it.
C8_ProcessingOrder ==
  /\ (pc \notin {"start", "exit_0"}) =>
       /\ argv = <<>> => IsSortedKeyList(notebooks_to_run)
       /\ argv # <<>> => notebooks_to_run = argv
  /\ pc = "exit_0" => looked = <<>> /\ executed = <<>>
  /\ Len(compared) <= Len(executed)
  /\ Len(executed) <= Len(looked)
  /\ Len(looked) <= Len(notebooks_to_run)
  /\ \A k \in 1..Len(looked) : looked[k] = notebooks_to_run[k]
  /\ \A k \in 1..Len(executed) :
       /\ executed[k].notebook = notebooks_to_run[k]
       /\ PassedUpTo(k - 1)
  /\ \A k \in 1..Len(compared) : compared[k].n = notebooks_to_run[k]
  /\ pc = "done" => PassedUpTo(Len(notebooks_to_run))

\* a run without arguments that processed the whole catalog
C8_Witness ==
  /\ argv = <<>>
  /\ pc = "done"
  /\ Len(executed) = Len(notebooks)
  /\ Len(compared) = Len(notebooks)

====
